---- MODULE Spec2Model ----
(***************************************************************************)
(* Dual RPC over websockets: one Server (src/src/server.ts, lines 96-297)  *)
(* and one ReconnectingClient owning a sequence of Client instances        *)
(* (src/unnamed/part_004), with the helpers each of them imports from      *)
(* ./common (src/unnamed/part_007).                                        *)
(*                                                                         *)
(* A wire message is the JSON object it carries, modelled as a record      *)
(* whose domain is the set of keys present in the JSON text: JSON.stringify*)
(* drops a key whose value is undefined, and the decoders test key         *)
(* presence with `in`.                                                     *)
(***************************************************************************)
EXTENDS Integers, Sequences, FiniteSets, TLC

\* ---------------------------------------------------------------- bounds
MaxConns == 2        \* Client instances (transports) ever created
MaxCalls == 2        \* call ids ever generated (v4() results)
MaxOps == 3          \* operations of the host program and faults of the network

\* ------------------------------------------------------- program constants
Version == "2.0"
ConnectMethod == "connect"
ProcedureNotFoundText == "Procedure not found."
TimeoutText == "dual-rpc-ws request timeout"
RejectedText == "The server rejected the connection"
NotConnectedText == "Not connected."

\* ------------------------------------------------------------ input domains
Undefined == "undefined"          \* the JavaScript value undefined
Null == "null"                    \* the JSON value null
Conns == 1..MaxConns
CallIds == 1..MaxCalls
ClientToken == "t1"               \* params.token of the ReconnectingClient
Tokens == {"t1", "t2"}            \* tokens peers present and Server.call is addressed to
Names == {"m1"}                   \* method names
Handlers == {"h1"}                \* handler functions given to register
NoHandler == "none"
Listeners == {"l1"}               \* (type, listener) pairs given to addEventListener
\* what one run of a handler does: return a value, return nothing, or throw
Behaviours ==
  {[k |-> "ret", v |-> "a"], [k |-> "ret", v |-> Undefined],
   [k |-> "throw", v |-> "boom"], [k |-> "throw", v |-> ProcedureNotFoundText]}
HookResults == {"true", "false", "throw"}

VARIABLES
  \* transport
  cState,        \* Client.readyState of each instance
  sState,        \* state of the server-side socket of each connection
  link,          \* whether bytes still flow on the connection
  c2s, s2c,      \* frames in flight, client to server and server to client
  \* Client instances
  cMethods,      \* Client.methods
  cRequests,     \* Client.requests (ids)
  cDispatch,     \* handler runs suspended at `await method.call(...)`
  \* ReconnectingClient
  instance, serverRejected, connectedForTheFirstTime, rcMethods,
  reconnTimer,   \* instances whose close() has a setTimeout pending
  initState,     \* state of the promise returned by the init() that made the instance
  initSettles,   \* how many times that promise's resolve/reject were invoked
  initParent,    \* 0: init() called by the user; c: by the timer of instance c
  connectFired, connectErrorFired, errorEvents,
  userClosed,    \* instances closed by disconnect() (bookkeeping)
  \* Server
  devices, wsToken, sMethods, sRequests, sDispatch, hsPending, hook,
  unhandled,     \* errors thrown out of the server's async message listener
  rpcCloseLog,   \* tokens emitted with rpcClose
  \* calls
  calls,         \* one record per generated call id
  timers,        \* ids whose Request timer is armed
  nConns, nCalls, nOps,
  hsReplies,   \* results the server sent in Connect replies, per connection (bookkeeping)
  listeners,   \* ReconnectingClient.listeners: the durable listener set
  cListeners,   \* listeners attached to each Client instance
  \* codec exercised on its own
  codecIn,       \* what is given to the codec: raw data, or the fields to encode
  wire,          \* the data on the wire
  decoded        \* what the decoder made of the data

transportVars == <<cState, sState, link, c2s, s2c>>
clientVars == <<cMethods, cRequests, cDispatch>>
rcVars == <<instance, serverRejected, connectedForTheFirstTime, rcMethods,
            reconnTimer, initState, initSettles, initParent,
            connectFired, connectErrorFired, errorEvents, userClosed>>
serverVars == <<devices, wsToken, sMethods, sRequests, sDispatch, hsPending,
                hook, unhandled, rpcCloseLog>>
callVars == <<calls, timers>>
counters == <<nConns, nCalls, nOps>>
codecVars == <<codecIn, wire, decoded>>
endpointVars == <<transportVars, clientVars, rcVars, serverVars, callVars, counters, cListeners, listeners, hsReplies>>
vars == <<transportVars, clientVars, rcVars, serverVars, callVars, counters,
          codecVars, cListeners, listeners, hsReplies>>

\* ------------------------------------------------------------------ codec
Has(m, f) == f \in DOMAIN m

\* common.ts RPCHelpers.rpcRequest / rpcRequest: JSON.stringify drops a key
\* whose value is undefined (the call sites pass `params ?? null` or an
\* object literal)
rpcRequest(method, params, id) ==
  IF params = Undefined
    THEN [jsonrpc |-> Version, method |-> method, id |-> id]
    ELSE [jsonrpc |-> Version, method |-> method, params |-> params, id |-> id]

\* rpcRequest('connect', {...}, id): the params are an object literal
rpcConnect(params, id) ==
  [jsonrpc |-> Version, method |-> ConnectMethod, params |-> params, id |-> id]

\* server's rpcResponse(result, id): an undefined result loses its key
rpcResponse(result, id) ==
  IF result = Undefined
    THEN [jsonrpc |-> Version, id |-> id]
    ELSE [jsonrpc |-> Version, result |-> result, id |-> id]

\* a response encoder without the default value of its first parameter
RPCHelpers_rpcResponse_NoDefault(result, id) ==
  rpcResponse(result, id)

\* client's RPCHelpers.rpcResponse(result = null, id)
RPCHelpers_rpcResponse(result, id) ==
  rpcResponse(IF result = Undefined THEN Null ELSE result, id)

rpcError(error, id) ==
  IF error = Undefined
    THEN [jsonrpc |-> Version, id |-> id]
    ELSE [jsonrpc |-> Version, error |-> error, id |-> id]

\* data on the wire is the JSON text of an object, written as the record of
\* the object's keys, or a text that is not the JSON of an object, written
\* [raw |-> kind]: "text" is not JSON at all, the other kinds are the JSON of
\* null, of a number, of a string, of an array and of a boolean
RawKinds == {"text", "null", "number", "string", "array", "true"}

\* `!message.id`: the id is absent or falsy (ids are numbers here, 0 is falsy)
FalsyId(m) == ~Has(m, "id") \/ m.id = 0

\* the classification both decoders share.  JSON.parse throws on a text that
\* is not JSON and the decoder catches it; it returns null for the text
\* "null", and reading `.id` of null throws a TypeError out of the decoder;
\* every other non-object value has no id property
MessageTypeOf_ResultFirst(m) ==
  IF Has(m, "raw") /\ m.raw = "text" THEN "Malformed"
  ELSE IF Has(m, "raw") /\ m.raw = "null" THEN "TypeError"
  ELSE IF FalsyId(m) \/ ~Has(m, "jsonrpc") \/ m.jsonrpc # Version THEN "Malformed"
  ELSE IF Has(m, "result") THEN "Response"
  ELSE IF Has(m, "method") /\ m.method = ConnectMethod THEN "Connect"
  ELSE IF Has(m, "method") THEN "Request"
  ELSE IF Has(m, "error") THEN "Error"
  ELSE "Malformed"

MessageTypeOf(m) ==
  IF Has(m, "raw") /\ m.raw = "text" THEN "Malformed"
  ELSE IF Has(m, "raw") /\ m.raw = "null" THEN "TypeError"
  ELSE IF FalsyId(m) \/ ~Has(m, "jsonrpc") \/ m.jsonrpc # Version THEN "Malformed"
  ELSE IF Has(m, "method") /\ m.method = ConnectMethod THEN "Connect"
  ELSE IF Has(m, "method") THEN "Request"
  ELSE IF Has(m, "result") THEN "Response"
  ELSE IF Has(m, "error") THEN "Error"
  ELSE "Malformed"

\* client: getMessage(data)
getMessage(data) == [type |-> MessageTypeOf(data), msg |-> data]

\* server: getMessageAndType(data)
getMessageAndType(data) == <<MessageTypeOf(data), data>>

\* `params ?? null`
Coalesce(p) == IF p = Undefined THEN Null ELSE p

\* ----------------------------------------------------------------- errors
Err(name, text) == [name |-> name, message |-> text]
NotConnectedError(text) == Err("NotConnectedError", text)
ProcedureNotFoundError == Err("ProcedureNotFoundError", ProcedureNotFoundText)
RequestError(text) == Err("RequestError", text)
InvalidJSONRPCError(text) == Err("InvalidJSONRPCError", text)
PlainError(text) == Err("Error", text)

NoError == Err("none", "")

\* the bookkeeping of one call(): the promise handed to the caller and what
\* the callee did with the request
NewCall(dir, c, m, open, via) ==
  [dir |-> dir, conn |-> c, method |-> m,
   open |-> open,            \* the callee was reachable when call() was invoked
   via |-> via,              \* "promise", or "throw" for a synchronous throw
   state |-> "pending", val |-> Undefined, err |-> NoError,
   settles |-> 0,            \* invocations of the promise's resolve/reject
   ran |-> "none", ranv |-> Undefined,   \* what the callee's dispatch did
   delivered |-> FALSE,      \* the callee's reply frame reached the caller's listener
   late |-> FALSE]           \* ... when the call had already been settled
NoCall == NewCall("none", 0, "none", FALSE, "promise")

\* invoking the resolve continuation of a call's promise
Resolve(r, v) ==
  [r EXCEPT !.settles = @ + 1,
            !.state = IF r.state = "pending" THEN "resolved" ELSE @,
            !.val = IF r.state = "pending" THEN v ELSE @]

\* invoking the reject continuation of a call's promise
Reject(r, e) ==
  [r EXCEPT !.settles = @ + 1,
            !.state = IF r.state = "pending" THEN "rejected" ELSE @,
            !.err = IF r.state = "pending" THEN e ELSE @]

\* the codec is not being exercised
NoInput == [op |-> "none"]
NoWire == [none |-> TRUE]
NoDecode == [type |-> "none"]

\* the state after construction of the endpoints, for a server with handshake
\* hook in H and method table in SM and a client with durable method table
\* in CM
InitEndpoints(H, SM, CM) ==
  /\ cState = [c \in Conns |-> "none"]
  /\ sState = [c \in Conns |-> "none"]
  /\ link = [c \in Conns |-> "none"]
  /\ c2s = [c \in Conns |-> <<>>]
  /\ s2c = [c \in Conns |-> <<>>]
  /\ cMethods = [c \in Conns |-> [n \in Names |-> NoHandler]]
  /\ cRequests = [c \in Conns |-> {}]
  /\ cDispatch = [c \in Conns |-> {}]
  /\ instance = 0
  /\ serverRejected = FALSE
  /\ connectedForTheFirstTime = FALSE
  /\ rcMethods \in CM
  /\ reconnTimer = {}
  /\ initState = [c \in Conns |-> "none"]
  /\ initSettles = [c \in Conns |-> 0]
  /\ initParent = [c \in Conns |-> 0]
  /\ connectFired = [c \in Conns |-> 0]
  /\ connectErrorFired = [c \in Conns |-> 0]
  /\ errorEvents = {}
  /\ userClosed = {}
  /\ devices = [t \in Tokens |-> 0]
  /\ wsToken = [c \in Conns |-> Undefined]
  /\ sMethods \in SM
  /\ sRequests = {}
  /\ sDispatch = {}
  /\ hsPending = {}
  /\ hook \in H
  /\ unhandled = {}
  /\ rpcCloseLog = <<>>
  /\ calls = [i \in CallIds |-> NoCall]
  /\ timers = {}
  /\ nConns = 0 /\ nCalls = 0 /\ nOps = 0
  /\ cListeners = [c \in Conns |-> {}]
  /\ hsReplies = [c \in Conns |-> <<>>]

InitWith(H, SM, CM) ==
  /\ InitEndpoints(H, SM, CM)
  /\ listeners = {}
  /\ codecIn = NoInput /\ wire = NoWire /\ decoded = NoDecode

\* new Server(params) with any handshake hook, new ReconnectingClient(params)
Init == InitWith(HookResults, {[n \in Names |-> NoHandler]}, {[n \in Names |-> NoHandler]})

\* ------------------------------------------------------------- transport
\* WebSocket.send of the browser API: frames are queued only while OPEN, and
\* reach the peer only while the link is up
ClientSend(q, c, msg) ==
  IF cState[c] = "OPEN" /\ link[c] = "up" THEN Append(q, msg) ELSE q

\* a frame sent on a socket that is not open is discarded
ServerSend(q, c, msg) ==
  IF sState[c] = "OPEN" /\ link[c] = "up" THEN Append(q, msg) ELSE q

\* --------------------------------------------------- ReconnectingClient
\* the promises whose resolve/reject run when the continuation of the init()
\* promise of instance c is invoked: the promise itself and, when it was
\* still pending, the close handler that awaits it through close()
RECURSIVE SettleChain(_, _)
SettleChain(c, cfft) ==
  IF initState[c] = "pending" /\ initParent[c] # 0 /\ ~cfft
    THEN {c} \cup SettleChain(initParent[c], cfft)
    ELSE {c}

ApplySettle(S, kind) ==
  /\ initSettles' = [x \in Conns |-> IF x \in S THEN initSettles[x] + 1 ELSE initSettles[x]]
  /\ initState' = [x \in Conns |->
        IF x \in S /\ initState[x] = "pending" THEN kind ELSE initState[x]]

\* ReconnectingClient.init(): a new Client, its handshake and close closures
InitBody(c, parent) ==
  /\ connectedForTheFirstTime' = FALSE
  /\ instance' = c
  /\ cState' = [cState EXCEPT ![c] = "CONNECTING"]
  /\ initState' = [initState EXCEPT ![c] = "pending"]
  /\ initParent' = [initParent EXCEPT ![c] = parent]
  /\ nConns' = c

\* the user calls init()
UserInit ==
  /\ nOps < MaxOps
  /\ nOps' = nOps + 1
  /\ nConns < MaxConns
  /\ InitBody(nConns + 1, 0)
  /\ UNCHANGED <<sState, link, c2s, s2c, clientVars, serverRejected, rcMethods,
                 reconnTimer, initSettles, connectFired, connectErrorFired,
                 errorEvents, userClosed, serverVars, callVars, nCalls>>
  /\ UNCHANGED codecVars
  /\ UNCHANGED hsReplies
  /\ UNCHANGED listeners
  /\ UNCHANGED cListeners

\* the setTimeout of close() fires: this.init()
ReconnectTimer(c) ==
  /\ c \in reconnTimer
  /\ nConns < MaxConns
  /\ reconnTimer' = reconnTimer \ {c}
  /\ InitBody(nConns + 1, c)
  /\ UNCHANGED <<sState, link, c2s, s2c, clientVars, serverRejected, rcMethods,
                 initSettles, connectFired, connectErrorFired,
                 errorEvents, userClosed, serverVars, callVars, nCalls, nOps>>
  /\ UNCHANGED codecVars
  /\ UNCHANGED hsReplies
  /\ UNCHANGED listeners
  /\ UNCHANGED cListeners

\* the socket opens: Client's 'open' listener sends the connect request and
\* the server's 'connection' listener installs its close/message listeners
TransportOpen(c) ==
  /\ cState[c] = "CONNECTING"
  /\ cState' = [cState EXCEPT ![c] = "OPEN"]
  /\ sState' = [sState EXCEPT ![c] = "OPEN"]
  /\ link' = [link EXCEPT ![c] = "up"]
  /\ c2s' = [c2s EXCEPT ![c] = <<rpcConnect([id |-> ClientToken], 0 - c)>>]
  /\ UNCHANGED <<s2c, clientVars, rcVars, serverVars, callVars, counters>>
  /\ UNCHANGED codecVars
  /\ UNCHANGED hsReplies
  /\ UNCHANGED listeners
  /\ UNCHANGED cListeners

\* a close listener that never schedules a new attempt
CloseHandler_NoReconnect(c) ==
  /\ reconnTimer' = reconnTimer
  /\ IF ~connectedForTheFirstTime
       THEN ApplySettle(SettleChain(c, connectedForTheFirstTime), "rejected")
       ELSE UNCHANGED <<initState, initSettles>>

\* removeAllListeners(totallyRemove): removeEventListener for every listener
\* of the durable set, on `this.instance`; the durable set itself loses them
\* only when totallyRemove is set
removeAllListeners(totallyRemove) ==
  /\ cListeners' = IF instance # 0
                     THEN [cListeners EXCEPT ![instance] = @ \ listeners]
                     ELSE cListeners
  /\ listeners' = IF totallyRemove THEN {} ELSE listeners

\* the close listener installed by init(): `await this.close()` and the
\* resolve/reject of the init() promise
CloseHandler(c) ==
  IF ~serverRejected
    THEN /\ reconnTimer' = reconnTimer \cup {c}
         /\ UNCHANGED <<initState, initSettles>>
    ELSE /\ reconnTimer' = reconnTimer
         /\ IF ~connectedForTheFirstTime
              THEN ApplySettle(SettleChain(c, connectedForTheFirstTime), "rejected")
              ELSE UNCHANGED <<initState, initSettles>>

\* the 'close' event of a Client instance
ClientOnClose(c) ==
  /\ cState[c] \in {"OPEN", "CLOSING"}
  /\ link[c] = "down"
  /\ s2c[c] = <<>>
  /\ cState' = [cState EXCEPT ![c] = "CLOSED"]
  /\ removeAllListeners(FALSE)
  /\ CloseHandler(c)
  /\ UNCHANGED <<sState, link, c2s, s2c, clientVars, instance, serverRejected,
                 connectedForTheFirstTime, rcMethods, initParent, connectFired,
                 connectErrorFired, errorEvents, userClosed, serverVars, callVars, counters>>
  /\ UNCHANGED codecVars
  /\ UNCHANGED hsReplies

\* the connection attempt fails (server unreachable): 'close' without 'open'
ConnectFail(c) ==
  /\ cState[c] = "CONNECTING"
  /\ nOps < MaxOps
  /\ nOps' = nOps + 1
  /\ cState' = [cState EXCEPT ![c] = "CLOSED"]
  /\ link' = [link EXCEPT ![c] = "down"]
  /\ removeAllListeners(FALSE)
  /\ CloseHandler(c)
  /\ UNCHANGED <<sState, c2s, s2c, clientVars, instance, serverRejected,
                 connectedForTheFirstTime, rcMethods, initParent, connectFired,
                 connectErrorFired, errorEvents, userClosed, serverVars, callVars,
                 nConns, nCalls>>
  /\ UNCHANGED codecVars
  /\ UNCHANGED hsReplies

\* the network drops an open connection: frames in flight are lost
Kill(c) ==
  /\ link[c] = "up"
  /\ nOps < MaxOps
  /\ nOps' = nOps + 1
  /\ link' = [link EXCEPT ![c] = "down"]
  /\ c2s' = [c2s EXCEPT ![c] = <<>>]
  /\ s2c' = [s2c EXCEPT ![c] = <<>>]
  /\ UNCHANGED <<cState, sState, clientVars, rcVars, serverVars, callVars,
                 nConns, nCalls>>
  /\ UNCHANGED codecVars
  /\ UNCHANGED hsReplies
  /\ UNCHANGED listeners
  /\ UNCHANGED cListeners

\* ReconnectingClient.disconnect(): this.instance?.close()
Disconnect ==
  /\ nOps < MaxOps
  /\ nOps' = nOps + 1
  \* without an instance, or on a closing or closed socket, close() does nothing
  /\ instance # 0
  /\ cState[instance] \in {"CONNECTING", "OPEN"}
  /\ cState' = [cState EXCEPT ![instance] = "CLOSING"]
  /\ link' = [link EXCEPT ![instance] = "down"]
  /\ s2c' = [s2c EXCEPT ![instance] = <<>>]
  /\ userClosed' = userClosed \cup {instance}
  /\ UNCHANGED <<sState, c2s, clientVars, instance, serverRejected,
                 connectedForTheFirstTime, rcMethods, reconnTimer, initState,
                 initSettles, initParent, connectFired, connectErrorFired,
                 errorEvents, serverVars, callVars, nConns, nCalls>>
  /\ UNCHANGED codecVars
  /\ UNCHANGED hsReplies
  /\ UNCHANGED listeners
  /\ UNCHANGED cListeners

\* ------------------------------------------------------------ Client.call
\* Every call() invocation gets the next index of `calls`; an invocation that
\* passes its guard uses that index as the v4() id of the request.

\* this.readyState === this.OPEN
IsOpen(c) == cState[c] = "OPEN"

\* a call() without the readyState guard: the request is recorded and sent
\* whatever the state of the socket
ClientCall_Unguarded(c, m, p) ==
  /\ calls' = [calls EXCEPT ![nCalls + 1] = NewCall("c2s", c, m, IsOpen(c), "promise")]
  /\ timers' = timers \cup {nCalls + 1}
  /\ cRequests' = [cRequests EXCEPT ![c] = @ \cup {nCalls + 1}]
  /\ c2s' = [c2s EXCEPT ![c] = ClientSend(@, c, rpcRequest(m, Coalesce(p), nCalls + 1))]

\* Client.call(method, params) on instance c
ClientCall(c, m, p) ==
  IF ~IsOpen(c)
    THEN \* `throw new Errors.NotConnectedError()` inside the async function
         /\ calls' = [calls EXCEPT ![nCalls + 1] =
               Reject(NewCall("c2s", c, m, IsOpen(c), "promise"),
                      NotConnectedError(NotConnectedText))]
         /\ UNCHANGED <<timers, cRequests, c2s>>
    ELSE /\ calls' = [calls EXCEPT ![nCalls + 1] = NewCall("c2s", c, m, IsOpen(c), "promise")]
         /\ timers' = timers \cup {nCalls + 1}
         /\ cRequests' = [cRequests EXCEPT ![c] = @ \cup {nCalls + 1}]
         /\ c2s' = [c2s EXCEPT ![c] = ClientSend(@, c, rpcRequest(m, Coalesce(p), nCalls + 1))]

\* ReconnectingClient.call(method, params)
RCCall(m, p) ==
  /\ nOps < MaxOps
  /\ nOps' = nOps + 1
  /\ nCalls < MaxCalls
  /\ nCalls' = nCalls + 1
  /\ IF instance # 0
       THEN ClientCall(instance, m, p)
       ELSE \* a synchronous throw: call() is not an async function
            /\ calls' = [calls EXCEPT ![nCalls + 1] =
                  Reject(NewCall("c2s", 0, m, FALSE, "throw"),
                         NotConnectedError(NotConnectedText))]
            /\ UNCHANGED <<timers, cRequests, c2s>>
  /\ UNCHANGED <<cState, sState, link, s2c, cMethods, cDispatch, rcVars,
                 serverVars, nConns>>
  /\ UNCHANGED codecVars
  /\ UNCHANGED hsReplies
  /\ UNCHANGED listeners
  /\ UNCHANGED cListeners

\* ------------------------------------------------------------ Server.call
ServerCall(t, m, p) ==
  /\ nOps < MaxOps
  /\ nOps' = nOps + 1
  /\ nCalls < MaxCalls
  /\ nCalls' = nCalls + 1
  /\ IF devices[t] = 0
       THEN \* `throw new Error(...)` inside the async function
            /\ calls' = [calls EXCEPT ![nCalls + 1] =
                  Reject(NewCall("s2c", 0, m, FALSE, "promise"),
                         PlainError("Client doesn't connected"))]
            /\ UNCHANGED <<timers, sRequests, s2c>>
       ELSE /\ timers' = timers \cup {nCalls + 1}
            /\ sRequests' = sRequests \cup {nCalls + 1}
            /\ calls' = [calls EXCEPT ![nCalls + 1] =
                   NewCall("s2c", devices[t], m, TRUE, "promise")]
            /\ s2c' = [s2c EXCEPT ![devices[t]] =
                   ServerSend(@, devices[t], rpcRequest(m, Coalesce(p), nCalls + 1))]
  /\ UNCHANGED <<cState, sState, link, c2s, clientVars, rcVars, devices, wsToken,
                 sMethods, sDispatch, hsPending, hook, unhandled, rpcCloseLog,
                 nConns>>
  /\ UNCHANGED codecVars
  /\ UNCHANGED hsReplies
  /\ UNCHANGED listeners
  /\ UNCHANGED cListeners

\* ------------------------------------------------------- Request timer
\* a timer that rejects the call but never runs the destructor
RequestTimer_NoDestructor(id) ==
  /\ id \in timers
  /\ timers' = timers \ {id}
  /\ IF calls[id].dir = "c2s"
       THEN /\ calls' = [calls EXCEPT ![id] = Reject(@, RequestError(TimeoutText))]
            /\ cRequests' = cRequests
            /\ sRequests' = sRequests
       ELSE /\ calls' = [calls EXCEPT ![id] = Reject(@, PlainError(TimeoutText))]
            /\ sRequests' = sRequests
            /\ cRequests' = cRequests
  /\ UNCHANGED <<transportVars, cMethods, cDispatch, rcVars, devices, wsToken,
                 sMethods, sDispatch, hsPending, hook, unhandled, rpcCloseLog,
                 counters>>
  /\ UNCHANGED codecVars
  /\ UNCHANGED hsReplies
  /\ UNCHANGED listeners
  /\ UNCHANGED cListeners

\* the setTimeout callback of Request: this.reject(timeout error); destructor()
RequestTimer(id) ==
  /\ id \in timers
  /\ timers' = timers \ {id}
  /\ IF calls[id].dir = "c2s"
       THEN /\ calls' = [calls EXCEPT ![id] = Reject(@, RequestError(TimeoutText))]
            /\ cRequests' = [cRequests EXCEPT ![calls[id].conn] = @ \ {id}]
            /\ sRequests' = sRequests
       ELSE /\ calls' = [calls EXCEPT ![id] = Reject(@, PlainError(TimeoutText))]
            /\ sRequests' = sRequests \ {id}
            /\ cRequests' = cRequests
  /\ UNCHANGED <<transportVars, cMethods, cDispatch, rcVars, devices, wsToken,
                 sMethods, sDispatch, hsPending, hook, unhandled, rpcCloseLog,
                 counters>>
  /\ UNCHANGED codecVars
  /\ UNCHANGED hsReplies
  /\ UNCHANGED listeners
  /\ UNCHANGED cListeners

\* ------------------------------------------------- Client message listener
\* what the callee did with request id (bookkeeping of the model)
Ran(id, k, v) ==
  IF id \in CallIds THEN [calls EXCEPT ![id].ran = k, ![id].ranv = v] ELSE calls

\* a frame answering call id reached the listener of the caller (bookkeeping)
Seen(cs, msg, dir) ==
  IF Has(msg, "id") /\ ~Has(msg, "method") /\ msg.id \in CallIds
    THEN IF cs[msg.id].dir = dir
           THEN [cs EXCEPT ![msg.id].delivered = TRUE,
                           ![msg.id].late = (calls[msg.id].state # "pending")]
           ELSE cs
    ELSE cs

\* ReconnectingClient.attachMethodsAndListeners on the live instance
AttachMethods(ms) ==
  IF instance # 0
    THEN [ms EXCEPT ![instance] =
            [n \in Names |-> IF rcMethods[n] # NoHandler THEN rcMethods[n] ELSE @[n]]]
    ELSE ms

\* attachMethodsAndListeners: this.addEventListener for every durable listener
AttachListeners(ls) ==
  IF instance # 0 THEN [ls EXCEPT ![instance] = @ \cup listeners] ELSE ls

\* case MessageType.Connect: the handshake closure installed by init() for
\* instance c, then connect() or connectError()
ClientOnConnect(c, msg) ==
  IF Has(msg.params, "result") /\ msg.params.result
    THEN /\ connectedForTheFirstTime' = TRUE
         /\ cMethods' = AttachMethods(cMethods)
         /\ cListeners' = AttachListeners(cListeners)
         /\ connectFired' = [connectFired EXCEPT ![c] = @ + 1]
         /\ ApplySettle(SettleChain(c, TRUE), "resolved")
         /\ UNCHANGED <<serverRejected, connectErrorFired>>
    ELSE /\ serverRejected' = TRUE
         /\ connectErrorFired' = [connectErrorFired EXCEPT ![c] = @ + 1]
         /\ UNCHANGED <<connectedForTheFirstTime, cMethods, connectFired,
                        initState, initSettles, cListeners>>

\* case MessageType.Request, no handler registered
ClientOnRequestMissing(c, msg) ==
  /\ c2s' = [c2s EXCEPT ![c] = ClientSend(@, c, rpcError(ProcedureNotFoundText, msg.id))]
  /\ calls' = Ran(msg.id, "notfound", Undefined)
  /\ UNCHANGED cDispatch

\* case MessageType.Request, the handler runs up to `await`
ClientOnRequest(c, msg) ==
  IF cMethods[c][msg.method] = NoHandler
    THEN ClientOnRequestMissing(c, msg)
    ELSE \E b \in Behaviours :
           /\ cDispatch' = [cDispatch EXCEPT ![c] = @ \cup {[id |-> msg.id, b |-> b]}]
           /\ calls' = Ran(msg.id, b.k, b.v)
           /\ UNCHANGED c2s

\* case MessageType.Response / MessageType.Error
ClientOnReply(c, type, msg) ==
  IF msg.id \notin cRequests[c]
    THEN /\ errorEvents' = errorEvents \cup {RequestError("Wrong request id")}
         /\ calls' = Seen(calls, msg, "c2s")
         /\ UNCHANGED cRequests
    ELSE /\ calls' = Seen([calls EXCEPT ![msg.id] =
               IF type = "Response"
                 THEN Resolve(@, msg.result)
                 ELSE Reject(@, IF msg.error = ProcedureNotFoundText
                                  THEN ProcedureNotFoundError
                                  ELSE RequestError(msg.error))], msg, "c2s")
         /\ cRequests' = [cRequests EXCEPT ![c] = @ \ {msg.id}]
         /\ UNCHANGED errorEvents

\* the 'message' listener of Client instance c
ClientRecv(c) ==
  /\ cState[c] = "OPEN"
  /\ s2c[c] # <<>>
  /\ s2c' = [s2c EXCEPT ![c] = Tail(@)]
  /\ LET message == getMessage(Head(s2c[c])) IN
       CASE message.type = "Malformed" ->
              /\ errorEvents' = errorEvents \cup {InvalidJSONRPCError("Malformed message")}
              /\ calls' = Seen(calls, message.msg, "c2s")
              /\ UNCHANGED <<c2s, clientVars, instance, serverRejected,
                             connectedForTheFirstTime, rcMethods, reconnTimer,
                             initState, initSettles, initParent, connectFired,
                             connectErrorFired, userClosed, cListeners>>
         [] message.type = "TypeError" ->
              \* the listener's promise rejects and nobody handles it
              UNCHANGED <<c2s, clientVars, rcVars, calls, cListeners>>
         [] message.type = "Connect" ->
              /\ ClientOnConnect(c, message.msg)
              /\ UNCHANGED <<c2s, cRequests, cDispatch, instance, rcMethods,
                             reconnTimer, initParent, errorEvents, userClosed, calls>>
         [] message.type = "Request" ->
              /\ ClientOnRequest(c, message.msg)
              /\ UNCHANGED <<cMethods, cRequests, rcVars, cListeners>>
         [] message.type \in {"Response", "Error"} ->
              /\ ClientOnReply(c, message.type, message.msg)
              /\ UNCHANGED <<c2s, cMethods, cDispatch, instance, serverRejected,
                             connectedForTheFirstTime, rcMethods, reconnTimer,
                             initState, initSettles, initParent, connectFired,
                             connectErrorFired, userClosed, cListeners>>
  /\ UNCHANGED <<cState, sState, link, serverVars, timers, counters>>
  /\ UNCHANGED codecVars
  /\ UNCHANGED hsReplies
  /\ UNCHANGED listeners

\* the handler's promise settles: send the Response or the Error
ClientHandlerDone(c, d) ==
  /\ d \in cDispatch[c]
  /\ cDispatch' = [cDispatch EXCEPT ![c] = @ \ {d}]
  /\ c2s' = [c2s EXCEPT ![c] = ClientSend(@, c,
        IF d.b.k = "ret" THEN RPCHelpers_rpcResponse(d.b.v, d.id)
                         ELSE rpcError(d.b.v, d.id))]
  /\ UNCHANGED <<cState, sState, link, s2c, cMethods, cRequests, rcVars,
                 serverVars, callVars, counters>>
  /\ UNCHANGED codecVars
  /\ UNCHANGED hsReplies
  /\ UNCHANGED listeners
  /\ UNCHANGED cListeners

\* ------------------------------------------------- Server message listener
\* case MessageType.Connect: devices.set, ws.token, then `await handshake`
ServerOnConnect(c, msg) ==
  IF ~Has(msg.params, "id")
    THEN /\ unhandled' = unhandled \cup {"No connection id"}
         /\ UNCHANGED <<devices, wsToken, hsPending>>
    ELSE /\ devices' = [devices EXCEPT ![msg.params.id] = c]
         /\ wsToken' = [wsToken EXCEPT ![c] = msg.params.id]
         /\ hsPending' = hsPending \cup {[conn |-> c, id |-> msg.id, token |-> msg.params.id]}
         /\ UNCHANGED unhandled

\* case MessageType.Request, up to `await method.call(...)`
ServerOnRequest(c, msg) ==
  IF sMethods[msg.method] = NoHandler
    THEN /\ s2c' = [s2c EXCEPT ![c] = ServerSend(@, c, rpcError(ProcedureNotFoundText, msg.id))]
         /\ calls' = Ran(msg.id, "notfound", Undefined)
         /\ UNCHANGED sDispatch
    ELSE \E b \in Behaviours :
           /\ sDispatch' = sDispatch \cup {[conn |-> c, id |-> msg.id, b |-> b]}
           /\ calls' = Ran(msg.id, b.k, b.v)
           /\ UNCHANGED s2c

\* case MessageType.Response / MessageType.Error
ServerOnReply(c, msg) ==
  IF msg.id \notin sRequests
    THEN /\ unhandled' = unhandled \cup {"Wrong request id"}
         /\ calls' = Seen(calls, msg, "s2c")
         /\ UNCHANGED sRequests
    ELSE /\ calls' = Seen([calls EXCEPT ![msg.id] =
               IF Has(msg, "result") THEN Resolve(@, msg.result)
               ELSE IF Has(msg, "error") THEN Reject(@, PlainError(msg.error))
               ELSE @], msg, "s2c")
         /\ sRequests' = sRequests \ {msg.id}
         /\ UNCHANGED unhandled

\* the 'message' listener of the socket of connection c
ServerRecv(c) ==
  /\ sState[c] = "OPEN"
  /\ c2s[c] # <<>>
  /\ c2s' = [c2s EXCEPT ![c] = Tail(@)]
  /\ LET type == getMessageAndType(Head(c2s[c]))[1]
         message == getMessageAndType(Head(c2s[c]))[2] IN
       CASE type = "Malformed" ->
              /\ unhandled' = unhandled \cup {"Malformed message"}
              /\ calls' = Seen(calls, message, "s2c")
              /\ UNCHANGED <<s2c, devices, wsToken, hsPending, sRequests, sDispatch>>
         [] type = "TypeError" ->
              /\ unhandled' = unhandled \cup {"TypeError"}
              /\ UNCHANGED <<s2c, devices, wsToken, hsPending, sRequests, sDispatch, calls>>
         [] type = "Connect" ->
              /\ ServerOnConnect(c, message)
              /\ UNCHANGED <<s2c, sRequests, sDispatch, calls>>
         [] type = "Request" ->
              /\ ServerOnRequest(c, message)
              /\ UNCHANGED <<devices, wsToken, hsPending, sRequests, unhandled>>
         [] type \in {"Response", "Error"} ->
              /\ ServerOnReply(c, message)
              /\ UNCHANGED <<s2c, devices, wsToken, hsPending, sDispatch>>
  /\ UNCHANGED <<cState, sState, link, clientVars, rcVars, sMethods, hook,
                 rpcCloseLog, timers, counters>>
  /\ UNCHANGED codecVars
  /\ UNCHANGED hsReplies
  /\ UNCHANGED listeners
  /\ UNCHANGED cListeners

\* a handshake that replies but never closes the socket of a refused peer
HandshakeDone_NoClose(h) ==
  /\ h \in hsPending
  /\ hsPending' = hsPending \ {h}
  /\ CASE hook = "throw" ->
            /\ unhandled' = unhandled \cup {"handshake threw"}
            /\ UNCHANGED <<s2c, c2s, sState, link, hsReplies>>
       [] hook = "true" ->
            /\ s2c' = [s2c EXCEPT ![h.conn] = ServerSend(@, h.conn,
                  rpcConnect([result |-> TRUE], h.id))]
            /\ hsReplies' = [hsReplies EXCEPT ![h.conn] = Append(@, TRUE)]
            /\ UNCHANGED <<unhandled, c2s, sState, link>>
       [] hook = "false" ->
            /\ s2c' = [s2c EXCEPT ![h.conn] = ServerSend(@, h.conn,
                  rpcConnect([result |-> FALSE], h.id))]
            /\ hsReplies' = [hsReplies EXCEPT ![h.conn] = Append(@, FALSE)]
            /\ UNCHANGED <<unhandled, c2s, sState, link>>
  /\ UNCHANGED <<cState, clientVars, rcVars, devices, wsToken, sMethods, sRequests,
                 sDispatch, hook, rpcCloseLog, callVars, counters>>
  /\ UNCHANGED codecVars
  /\ UNCHANGED listeners
  /\ UNCHANGED cListeners

\* the handshake hook settles: reply, and ws.close() on a false result
HandshakeDone(h) ==
  /\ h \in hsPending
  /\ hsPending' = hsPending \ {h}
  /\ CASE hook = "throw" ->
            /\ unhandled' = unhandled \cup {"handshake threw"}
            /\ UNCHANGED <<s2c, c2s, sState, link, hsReplies>>
       [] hook = "true" ->
            /\ s2c' = [s2c EXCEPT ![h.conn] = ServerSend(@, h.conn,
                  rpcConnect([result |-> TRUE], h.id))]
            /\ hsReplies' = [hsReplies EXCEPT ![h.conn] = Append(@, TRUE)]
            /\ UNCHANGED <<unhandled, c2s, sState, link>>
       [] hook = "false" ->
            /\ s2c' = [s2c EXCEPT ![h.conn] = ServerSend(@, h.conn,
                  rpcConnect([result |-> FALSE], h.id))]
            /\ hsReplies' = [hsReplies EXCEPT ![h.conn] = Append(@, FALSE)]
            /\ sState' = [sState EXCEPT ![h.conn] = IF @ = "OPEN" THEN "CLOSING" ELSE @]
            /\ link' = [link EXCEPT ![h.conn] = "down"]
            /\ c2s' = [c2s EXCEPT ![h.conn] = <<>>]
            /\ UNCHANGED unhandled
  /\ UNCHANGED <<cState, clientVars, rcVars, devices, wsToken, sMethods, sRequests,
                 sDispatch, hook, rpcCloseLog, callVars, counters>>
  /\ UNCHANGED codecVars
  /\ UNCHANGED listeners
  /\ UNCHANGED cListeners

\* a server that answers in the order of arrival: the reply carries the id
\* of the oldest request still in flight
ServerHandlerDone_OldestId(d) ==
  /\ d \in sDispatch
  /\ sDispatch' = sDispatch \ {d}
  /\ LET first == CHOOSE x \in sDispatch : \A y \in sDispatch : x.id <= y.id IN
       s2c' = [s2c EXCEPT ![d.conn] = ServerSend(@, d.conn,
         IF d.b.k = "ret" THEN rpcResponse(d.b.v, first.id)
                          ELSE rpcError(d.b.v, first.id))]
  /\ unhandled' = unhandled
  /\ UNCHANGED <<cState, sState, link, c2s, clientVars, rcVars, devices, wsToken,
                 sMethods, sRequests, hsPending, hook, rpcCloseLog, callVars, counters>>
  /\ UNCHANGED codecVars
  /\ UNCHANGED hsReplies
  /\ UNCHANGED listeners
  /\ UNCHANGED cListeners

\* the handler's promise settles: try { send Response } catch { send Error }
ServerHandlerDone(d) ==
  /\ d \in sDispatch
  /\ sDispatch' = sDispatch \ {d}
  /\ s2c' = [s2c EXCEPT ![d.conn] = ServerSend(@, d.conn,
         IF d.b.k = "ret" THEN rpcResponse(d.b.v, d.id)
                          ELSE rpcError(d.b.v, d.id))]
  /\ unhandled' = unhandled
  /\ UNCHANGED <<cState, sState, link, c2s, clientVars, rcVars, devices, wsToken,
                 sMethods, sRequests, hsPending, hook, rpcCloseLog, callVars, counters>>
  /\ UNCHANGED codecVars
  /\ UNCHANGED hsReplies
  /\ UNCHANGED listeners
  /\ UNCHANGED cListeners

\* a 'close' listener that emits rpcClose but leaves the registry alone
ServerOnClose_NoDelete(c) ==
  /\ sState[c] \in {"OPEN", "CLOSING"}
  /\ link[c] = "down"
  /\ c2s[c] = <<>>
  /\ sState' = [sState EXCEPT ![c] = "CLOSED"]
  /\ UNCHANGED devices
  /\ rpcCloseLog' = Append(rpcCloseLog, wsToken[c])
  /\ UNCHANGED <<cState, link, c2s, s2c, clientVars, rcVars, wsToken, sMethods,
                 sRequests, sDispatch, hsPending, hook, unhandled, callVars, counters>>
  /\ UNCHANGED codecVars
  /\ UNCHANGED hsReplies
  /\ UNCHANGED listeners
  /\ UNCHANGED cListeners

\* the 'close' listener of the socket: devices.delete(ws.token); rpcClose(ws.token)
ServerOnClose(c) ==
  /\ sState[c] \in {"OPEN", "CLOSING"}
  /\ link[c] = "down"
  /\ c2s[c] = <<>>
  /\ sState' = [sState EXCEPT ![c] = "CLOSED"]
  /\ devices' = [t \in Tokens |-> IF t = wsToken[c] THEN 0 ELSE devices[t]]
  /\ rpcCloseLog' = Append(rpcCloseLog, wsToken[c])
  /\ UNCHANGED <<cState, link, c2s, s2c, clientVars, rcVars, wsToken, sMethods,
                 sRequests, sDispatch, hsPending, hook, unhandled, callVars, counters>>
  /\ UNCHANGED codecVars
  /\ UNCHANGED hsReplies
  /\ UNCHANGED listeners
  /\ UNCHANGED cListeners

\* ------------------------------------------------------------- registries
\* Server.register(method, handler)
ServerRegister(n, h) ==
  /\ nOps < MaxOps
  /\ nOps' = nOps + 1
  /\ sMethods[n] # h     \* registering the same handler again changes nothing
  /\ sMethods' = [sMethods EXCEPT ![n] = h]
  /\ UNCHANGED <<transportVars, clientVars, rcVars, devices, wsToken, sRequests,
                 sDispatch, hsPending, hook, unhandled, rpcCloseLog, callVars,
                 nConns, nCalls>>
  /\ UNCHANGED codecVars
  /\ UNCHANGED hsReplies
  /\ UNCHANGED listeners
  /\ UNCHANGED cListeners

\* ReconnectingClient.register(method, handler)
RCRegister(n, h) ==
  /\ nOps < MaxOps
  /\ nOps' = nOps + 1
  /\ rcMethods' = [rcMethods EXCEPT ![n] = h]
  /\ cMethods' = IF instance # 0 THEN [cMethods EXCEPT ![instance][n] = h] ELSE cMethods
  /\ <<rcMethods', cMethods'>> # <<rcMethods, cMethods>>
  /\ UNCHANGED <<transportVars, cRequests, cDispatch, instance, serverRejected,
                 connectedForTheFirstTime, reconnTimer, initState, initSettles,
                 initParent, connectFired, connectErrorFired, errorEvents,
                 userClosed, serverVars, callVars, nConns, nCalls>>
  /\ UNCHANGED codecVars
  /\ UNCHANGED hsReplies
  /\ UNCHANGED listeners
  /\ UNCHANGED cListeners

\* an unregister that forgets the live instance
RCUnregister_DurableOnly(n) ==
  /\ nOps < MaxOps
  /\ nOps' = nOps + 1
  /\ rcMethods' = [rcMethods EXCEPT ![n] = NoHandler]
  /\ cMethods' = cMethods
  /\ <<rcMethods', cMethods'>> # <<rcMethods, cMethods>>
  /\ UNCHANGED <<transportVars, cRequests, cDispatch, instance, serverRejected,
                 connectedForTheFirstTime, reconnTimer, initState, initSettles,
                 initParent, connectFired, connectErrorFired, errorEvents,
                 userClosed, serverVars, callVars, nConns, nCalls>>
  /\ UNCHANGED codecVars
  /\ UNCHANGED hsReplies
  /\ UNCHANGED listeners
  /\ UNCHANGED cListeners

\* ReconnectingClient.unregister(method)
RCUnregister(n) ==
  /\ nOps < MaxOps
  /\ nOps' = nOps + 1
  /\ rcMethods' = [rcMethods EXCEPT ![n] = NoHandler]
  /\ cMethods' = IF instance # 0 THEN [cMethods EXCEPT ![instance][n] = NoHandler] ELSE cMethods
  /\ <<rcMethods', cMethods'>> # <<rcMethods, cMethods>>
  /\ UNCHANGED <<transportVars, cRequests, cDispatch, instance, serverRejected,
                 connectedForTheFirstTime, reconnTimer, initState, initSettles,
                 initParent, connectFired, connectErrorFired, errorEvents,
                 userClosed, serverVars, callVars, nConns, nCalls>>
  /\ UNCHANGED codecVars
  /\ UNCHANGED hsReplies
  /\ UNCHANGED listeners
  /\ UNCHANGED cListeners

\* what the host writes on the live instance's socket behind the client's
\* back: a text that is not JSON
RawFrames == {[raw |-> "text"]}

\* client.instance.send(data) by the host program
SendRaw(data) ==
  /\ nOps < MaxOps
  /\ instance # 0
  /\ cState[instance] = "OPEN"
  /\ nOps' = nOps + 1
  /\ c2s' = [c2s EXCEPT ![instance] = ClientSend(@, instance, data)]
  /\ UNCHANGED <<cState, sState, link, s2c, clientVars, rcVars, serverVars,
                 callVars, nConns, nCalls>>
  /\ UNCHANGED codecVars
  /\ UNCHANGED hsReplies
  /\ UNCHANGED listeners
  /\ UNCHANGED cListeners

\* ReconnectingClient.addEventListener(type, listener)
RCAddEventListener(l) ==
  /\ nOps < MaxOps
  /\ nOps' = nOps + 1
  /\ listeners' = listeners \cup {l}
  /\ cListeners' = IF instance # 0
                     THEN [cListeners EXCEPT ![instance] = @ \cup {l}]
                     ELSE cListeners
  /\ <<listeners', cListeners'>> # <<listeners, cListeners>>
  /\ UNCHANGED <<transportVars, clientVars, rcVars, serverVars, callVars,
                 nConns, nCalls, codecVars, hsReplies>>

\* ReconnectingClient.removeEventListener(type, listener)
RCRemoveEventListener(l) ==
  /\ nOps < MaxOps
  /\ nOps' = nOps + 1
  /\ listeners' = listeners \ {l}
  /\ cListeners' = IF instance # 0
                     THEN [cListeners EXCEPT ![instance] = @ \ {l}]
                     ELSE cListeners
  /\ <<listeners', cListeners'>> # <<listeners, cListeners>>
  /\ UNCHANGED <<transportVars, clientVars, rcVars, serverVars, callVars,
                 nConns, nCalls, codecVars, hsReplies>>

\* ---------------------------------------------------------- specification
ParamsIn == {Undefined}

Next ==
  \/ UserInit
  \/ \E c \in Conns : ReconnectTimer(c)
  \/ \E c \in Conns : TransportOpen(c)
  \/ \E c \in Conns : ConnectFail(c)
  \/ \E c \in Conns : Kill(c)
  \/ \E c \in Conns : ClientOnClose(c)
  \/ \E c \in Conns : ServerOnClose(c)
  \/ Disconnect
  \/ \E m \in Names, p \in ParamsIn : RCCall(m, p)
  \/ \E t \in Tokens, m \in Names, p \in ParamsIn : ServerCall(t, m, p)
  \/ \E id \in CallIds : RequestTimer(id)
  \/ \E c \in Conns : ClientRecv(c)
  \/ \E c \in Conns : \E d \in cDispatch[c] : ClientHandlerDone(c, d)
  \/ \E c \in Conns : ServerRecv(c)
  \/ \E h \in hsPending : HandshakeDone(h)
  \/ \E d \in sDispatch : ServerHandlerDone(d)
  \/ \E n \in Names, h \in Handlers : ServerRegister(n, h)
  \/ \E n \in Names, h \in Handlers : RCRegister(n, h)
  \/ \E n \in Names : RCUnregister(n)
  \/ \E data \in RawFrames : SendRaw(data)
  \/ \E l \in Listeners : RCAddEventListener(l)
  \/ \E l \in Listeners : RCRemoveEventListener(l)

Spec == Init /\ [][Next]_vars

\* the steps the event loop and the transport take on their own: a delivered
\* frame, an expired timer, a settled promise or a pending socket event
EventLoop ==
  \/ \E c \in Conns : ReconnectTimer(c)
  \/ \E c \in Conns : TransportOpen(c)
  \/ \E c \in Conns : ClientOnClose(c)
  \/ \E c \in Conns : ServerOnClose(c)
  \/ \E c \in Conns : ClientRecv(c)
  \/ \E c \in Conns : ServerRecv(c)
  \/ \E h \in hsPending : HandshakeDone(h)
  \/ \E d \in sDispatch : ServerHandlerDone(d)
  \/ \E id \in CallIds : RequestTimer(id)

Internal ==
  \/ EventLoop
  \/ \E c \in Conns : \E d \in cDispatch[c] : ClientHandlerDone(c, d)

\* pending work of the event loop is eventually processed; an operation of
\* the host program or a fault of the network need not happen
Fairness == WF_vars(Internal)

\* the reconnection scenario: the server accepts every token and has its
\* methods registered, the client's methods were registered before init();
\* the host calls init() once, makes one call and changes the client's
\* registry, the network kills connections and refuses attempts
InitLive == InitWith({"true"}, [Names -> Handlers], [Names -> Handlers])

LiveNext ==
  \/ (instance = 0 /\ UserInit)
  \/ \E c \in Conns : ConnectFail(c)
  \/ \E c \in Conns : Kill(c)
  \/ (nCalls = 0 /\ \E m \in Names, p \in ParamsIn : RCCall(m, p))
  \/ \E n \in Names, h \in Handlers : RCRegister(n, h)
  \/ \E n \in Names : RCUnregister(n)
  \/ EventLoop

LiveSpec == InitLive /\ [][LiveNext]_vars /\ Fairness

\* the registry scenario: both sides registered their methods before the
\* first init(); the host connects, registers and unregisters, the server
\* calls the client
RegistryNext ==
  \/ UserInit
  \/ \E n \in Names, h \in Handlers : RCRegister(n, h)
  \/ \E n \in Names : RCUnregister(n)
  \/ \E t \in Tokens, m \in Names, p \in ParamsIn : ServerCall(t, m, p)
  \/ \E c \in Conns : TransportOpen(c)
  \/ \E c \in Conns : ClientRecv(c)
  \/ \E c \in Conns : \E d \in cDispatch[c] : ClientHandlerDone(c, d)
  \/ \E c \in Conns : ServerRecv(c)
  \/ \E h \in hsPending : HandshakeDone(h)
  \/ \E id \in CallIds : RequestTimer(id)

RegistrySpec == InitLive /\ [][RegistryNext]_vars

\* the listener scenario: the host added its listeners before any connection
\* existed; it connects, disconnects and connects again, adds and removes
\* listeners, against a server that accepts every token
InitListeners ==
  /\ InitEndpoints({"true"}, {[n \in Names |-> NoHandler]}, {[n \in Names |-> NoHandler]})
  /\ listeners = Listeners
  /\ codecIn = NoInput /\ wire = NoWire /\ decoded = NoDecode

ListenerNext ==
  \/ UserInit
  \/ Disconnect
  \/ \E l \in Listeners : RCAddEventListener(l)
  \/ \E l \in Listeners : RCRemoveEventListener(l)
  \/ \E c \in Conns : ReconnectTimer(c)
  \/ \E c \in Conns : TransportOpen(c)
  \/ \E c \in Conns : ClientOnClose(c)
  \/ \E c \in Conns : ServerOnClose(c)
  \/ \E c \in Conns : ClientRecv(c)
  \/ \E c \in Conns : ServerRecv(c)
  \/ \E h \in hsPending : HandshakeDone(h)

ListenerSpec == InitListeners /\ [][ListenerNext]_vars

\* ------------------------------------------------------ the codec on its own
\* the inputs the codec is exercised on
CodecIds == {0, 1}
CodecMethods == {ConnectMethod, "m1"}
CodecValues == {Undefined, Null, "a"}
CodecErrors == {Undefined, "boom"}

\* a key of a JSON object that is present (a one-element sequence) or absent
OptField(k, v) == IF v = <<>> THEN <<>> ELSE (k :> v[1])

\* the members an object on the wire has besides jsonrpc and id
Bodies ==
  {<<>>, [method |-> ConnectMethod], [method |-> "m1"], [result |-> "a"],
   [error |-> "boom"], [method |-> "m1", result |-> "a"],
   [result |-> "a", error |-> "boom"]}

\* raw data a peer may send: texts that are not the JSON of an object, and
\* objects with or without id, with a right, a wrong or no version
WireData ==
  {[raw |-> k] : k \in RawKinds} \cup
  {OptField("jsonrpc", v) @@ OptField("id", i) @@ b :
     v \in {<<>>, <<Version>>, <<"1.0">>},
     i \in {<<>>} \cup {<<n>> : n \in CodecIds},
     b \in Bodies}

CodecInputs ==
  {[op |-> "decode", data |-> d] : d \in WireData} \cup
  {[op |-> "request", method |-> m, params |-> p, id |-> i] :
     m \in CodecMethods, p \in CodecValues, i \in CodecIds} \cup
  {[op |-> "response", result |-> r, id |-> i] : r \in CodecValues, i \in CodecIds} \cup
  {[op |-> "error", error |-> e, id |-> i] : e \in CodecErrors, i \in CodecIds}

CodecInit ==
  /\ InitEndpoints({"true"}, {[n \in Names |-> NoHandler]}, {[n \in Names |-> NoHandler]})
  /\ listeners = {}
  /\ codecIn \in CodecInputs
  /\ wire = NoWire
  /\ decoded = NoDecode

\* data arrives from the peer
Receive ==
  /\ codecIn.op = "decode"
  /\ wire = NoWire
  /\ wire' = codecIn.data
  /\ UNCHANGED <<codecIn, decoded>>
  /\ UNCHANGED endpointVars

\* RPCHelpers.rpcRequest / rpcResponse / rpcError
Encode ==
  /\ codecIn.op \in {"request", "response", "error"}
  /\ wire = NoWire
  /\ wire' = CASE codecIn.op = "request" ->
                   rpcRequest(codecIn.method, codecIn.params, codecIn.id)
              [] codecIn.op = "response" ->
                   RPCHelpers_rpcResponse(codecIn.result, codecIn.id)
              [] codecIn.op = "error" ->
                   rpcError(codecIn.error, codecIn.id)
  /\ UNCHANGED <<codecIn, decoded>>
  /\ UNCHANGED endpointVars

\* getMessage(data)
Decode ==
  /\ wire # NoWire
  /\ decoded = NoDecode
  /\ decoded' = getMessage(wire)
  /\ UNCHANGED <<codecIn, wire>>
  /\ UNCHANGED endpointVars

CodecNext ==
  \/ Receive
  \/ Encode
  \/ Decode

CodecSpec == CodecInit /\ [][CodecNext]_vars

\* message[f], undefined when the key is absent
Field(m, f) == IF Has(m, f) THEN m[f] ELSE Undefined

\* ------------------------------------------------------------------ properties
NotTimedOut(r) == r.err.message # TimeoutText
AllRequests == sRequests \cup UNION {cRequests[c] : c \in Conns}
FrameInFlight(id) ==
  \E c \in Conns :
    \/ \E i \in DOMAIN c2s[c] : Has(c2s[c][i], "id") /\ c2s[c][i].id = id
    \/ \E i \in DOMAIN s2c[c] : Has(s2c[c][i], "id") /\ s2c[c][i].id = id

\* C1: a call whose registered handler returned a value is resolved with
\* exactly that value, and with null when the handler returned undefined.
\* Stated on the delivery of the reply: once the frame the callee sent has
\* reached the caller's listener (and the call had not timed out), the call
\* is resolved with the handler's value.
C1_ResolvesWithHandlerValue ==
  \A id \in CallIds :
    (calls[id].ran = "ret" /\ calls[id].delivered /\ NotTimedOut(calls[id]))
      => (calls[id].state = "resolved" /\ calls[id].val = Coalesce(calls[id].ranv))

\* C2: a call to a method the remote endpoint has no handler for is rejected
\* with ProcedureNotFoundError, in both directions.
C2_NotFoundRejects ==
  \A id \in CallIds :
    (calls[id].ran = "notfound" /\ calls[id].delivered /\ NotTimedOut(calls[id]))
      => (calls[id].state = "rejected" /\ calls[id].err = ProcedureNotFoundError)

\* C3: a call whose remote handler throws is rejected with RequestError
\* carrying the thrown message, in both directions.
C3_ThrowRejectsWithRequestError ==
  \A id \in CallIds :
    (calls[id].ran = "throw" /\ calls[id].delivered /\ NotTimedOut(calls[id]))
      => (calls[id].state = "rejected" /\ calls[id].err = RequestError(calls[id].ranv))

\* C4: a call that timed out is rejected with RequestError and has no
\* pending-call record; a reply that reaches the listener after the timeout
\* is reported as an unknown-id error (on the error channel of the client; the
\* server of this code has none, the error escapes its listener) and the
\* caller keeps the timeout rejection.
C4_TimeoutAndLateReply ==
  \A id \in CallIds :
    (calls[id].state = "rejected" /\ calls[id].err.message = TimeoutText)
      => /\ calls[id].err.name = "RequestError"
         /\ id \notin AllRequests
         /\ calls[id].late =>
              IF calls[id].dir = "c2s"
                THEN RequestError("Wrong request id") \in errorEvents
                ELSE "Wrong request id" \in unhandled

\* C5: the resolve/reject continuations of a call are invoked at most once in
\* total, whatever the interleaving of replies and of the deadline timer.
C5_SettledAtMostOnce ==
  \A id \in CallIds : calls[id].settles <= 1

\* C6: call() on a client with no open transport fails with
\* NotConnectedError, creates no pending-call record, arms no timer and sends
\* no frame.
C6_ClosedCallRefused ==
  \A id \in CallIds :
    (calls[id].dir = "c2s" /\ ~calls[id].open)
      => /\ calls[id].state = "rejected"
         /\ calls[id].err.name = "NotConnectedError"
         /\ calls[id].settles = 1
         /\ id \notin AllRequests
         /\ id \notin timers
         /\ ~FrameInFlight(id)

\* C6 witness: call() was invoked on an instance whose socket was not open
C6_Witness ==
  \E id \in CallIds :
    /\ calls[id].dir = "c2s" /\ ~calls[id].open /\ calls[id].conn # 0
    /\ cState[calls[id].conn] \in {"CONNECTING", "CLOSING", "CLOSED"}

\* C7: Server.call for a token that is not in the registry fails
\* synchronously with NotConnectedError and adds nothing to the table.
C7_UnknownTokenRefused ==
  \A id \in CallIds :
    (calls[id].dir = "s2c" /\ ~calls[id].open)
      => /\ calls[id].err.name = "NotConnectedError"
         /\ calls[id].via = "throw"
         /\ id \notin sRequests

\* the result of the handshake hook for the Connect of connection c
HookOutcome(c) ==
  IF wsToken[c] = Undefined \/ (\E h \in hsPending : h.conn = c) THEN "none" ELSE hook

\* C8: first handshake of init(): on acceptance init() resolves, connect fires
\* and connectError does not; when the hook returns false or throws, init()
\* rejects, connectError fires and connect never does.  Each case is stated at
\* the point where the exchange is over on an undisturbed connection.
C8_FirstHandshake ==
  \A c \in Conns :
    (initParent[c] = 0 /\ initState[c] # "none") =>
      /\ (HookOutcome(c) = "true" /\ link[c] = "up" /\ s2c[c] = <<>>)
           => (initState[c] = "resolved" /\ connectFired[c] = 1 /\ connectErrorFired[c] = 0)
      /\ (HookOutcome(c) = "false" /\ cState[c] = "CLOSED"
            /\ connectFired[c] + connectErrorFired[c] > 0)
           => (initState[c] = "rejected" /\ connectErrorFired[c] = 1 /\ connectFired[c] = 0)
      /\ (HookOutcome(c) = "throw" /\ link[c] = "up" /\ s2c[c] = <<>> /\ c2s[c] = <<>>)
           => (initState[c] = "rejected" /\ connectErrorFired[c] = 1 /\ connectFired[c] = 0)

\* the live instance had connected and its transport was killed
C9_Down ==
  \E i \in Conns :
    /\ instance = i /\ connectFired[i] >= 1
    /\ link[i] = "down" /\ i \notin userClosed

\* the live instance is connected: connect() ran for it and its socket is open
C9_Up ==
  \E j \in Conns :
    /\ instance = j /\ connectFired[j] >= 1
    /\ cState[j] = "OPEN" /\ link[j] = "up"

\* the bound on the number of sockets keeps a scheduled attempt from starting
C9_Stuck == nConns = MaxConns /\ reconnTimer # {}

C10_DisconnectSuppressesReconnect ==
  \A c \in userClosed :
    /\ c \notin reconnTimer
    /\ \A d \in Conns : initParent[d] # c

\* the reconnecting client is connected: its live instance has an open socket
\* and has fired connect
RCConnected ==
  instance # 0 /\ cState[instance] = "OPEN" /\ connectFired[instance] >= 1

\* C11: init() on a reconnecting client that is already connected fails with
\* AlreadyConnected and creates no new peer endpoint or transport: while the
\* client is connected no step of the host creates a further instance.
C11_InitWhenConnectedRefused ==
  [][RCConnected => ~(nConns' = nConns + 1 /\ instance' = nConns + 1)]_vars

\* C12: an endpoint that receives a Malformed envelope reports an
\* InvalidJSONRPCError on its error channel: the error never escapes the
\* server's message listener as an exception, and a client whose callee
\* answered with a frame that decodes as Malformed has the error among its
\* error events.
C12_MalformedReported ==
  /\ "Malformed message" \notin unhandled
  /\ \A id \in CallIds :
       (/\ calls[id].dir = "c2s" /\ calls[id].delivered
        /\ calls[id].ran = "ret" /\ calls[id].ranv = Undefined)
         => InvalidJSONRPCError("Malformed message") \in errorEvents

\* C13: getMessage never throws, and returns Malformed for every raw input
\* that is not JSON, is JSON but not an object (null included), has no id, or
\* has a wrong or absent protocol version.
C13_DecodeNeverThrows ==
  (codecIn.op = "decode" /\ decoded # NoDecode) =>
    /\ decoded.type # "TypeError"
    /\ (\/ Has(codecIn.data, "raw")
        \/ ~Has(codecIn.data, "id")
        \/ ~Has(codecIn.data, "jsonrpc")
        \/ codecIn.data.jsonrpc # Version)
         => decoded.type = "Malformed"

\* C14 as stated: for every method name, params and id, decoding an encoded
\* Request yields a Request with the same method, params and id; an encoded
\* Response yields a Response with the same id and result; an encoded Error
\* yields an Error with the same id and error.
C14_RoundTripAll ==
  decoded # NoDecode =>
    /\ codecIn.op = "request" =>
         /\ decoded.type = "Request"
         /\ Field(decoded.msg, "method") = codecIn.method
         /\ Field(decoded.msg, "params") = codecIn.params
         /\ decoded.msg.id = codecIn.id
    /\ codecIn.op = "response" =>
         /\ decoded.type = "Response"
         /\ Field(decoded.msg, "result") = codecIn.result
         /\ decoded.msg.id = codecIn.id
    /\ codecIn.op = "error" =>
         /\ decoded.type = "Error"
         /\ Field(decoded.msg, "error") = codecIn.error
         /\ decoded.msg.id = codecIn.id

\* C14 amended: the round trip holds for a truthy id; for a Request whose
\* method is not the reserved name connect (params may be undefined); for a
\* Response, whose decoded result is the encoded one with null standing for
\* undefined; and for an Error whose error is defined.
C14_RoundTrip ==
  (decoded # NoDecode /\ codecIn.op # "decode" /\ codecIn.id # 0) =>
    /\ (codecIn.op = "request" /\ codecIn.method # ConnectMethod) =>
         /\ decoded.type = "Request"
         /\ Field(decoded.msg, "method") = codecIn.method
         /\ Field(decoded.msg, "params") = codecIn.params
         /\ decoded.msg.id = codecIn.id
    /\ codecIn.op = "response" =>
         /\ decoded.type = "Response"
         /\ Field(decoded.msg, "result") = Coalesce(codecIn.result)
         /\ decoded.msg.id = codecIn.id
    /\ (codecIn.op = "error" /\ codecIn.error # Undefined) =>
         /\ decoded.type = "Error"
         /\ Field(decoded.msg, "error") = codecIn.error
         /\ decoded.msg.id = codecIn.id

\* C14 witness: a Response encoded from an undefined result was decoded
C14_Witness ==
  /\ codecIn.op = "response"
  /\ codecIn.result = Undefined /\ codecIn.id # 0
  /\ decoded.type = "Response"

\* C15: for every Connect envelope bearing a token the server sends exactly
\* one Connect reply with a boolean result, whether the hook returned true,
\* returned false or threw; when it threw, the result is false.
C15_OneConnectReply ==
  \A c \in Conns :
    HookOutcome(c) # "none" =>
      /\ Len(hsReplies[c]) = 1
      /\ hsReplies[c][1] = (HookOutcome(c) = "true")

\* C16: when the handshake result is false the server closes that transport
\* in the step that sends the Connect reply, and once the closure has been
\* processed the rejected token is not in the device registry: the close
\* removes it, and the registry never maps it to the closed connection again.
C16_RejectedClosedAndUnregistered ==
  [][\A c \in Conns :
       /\ (hsReplies[c] = <<>> /\ hsReplies'[c] = <<FALSE>>)
            => sState'[c] \in {"CLOSING", "CLOSED"}
       /\ (hsReplies[c] = <<FALSE>> /\ sState[c] # "CLOSED" /\ sState'[c] = "CLOSED")
            => devices'[wsToken[c]] = 0
       /\ (hsReplies'[c] = <<FALSE>> /\ sState'[c] = "CLOSED")
            => devices'[wsToken'[c]] # c]_vars

\* C16 witness: the socket of a refused peer is closed and its token is gone
C16_Witness ==
  \E c \in Conns :
    /\ hsReplies[c] = <<FALSE>> /\ sState[c] = "CLOSED"
    /\ wsToken[c] # Undefined /\ devices[wsToken[c]] = 0

\* C17: when the transport of a registered peer closes, the step that
\* processes the close removes its token from the device registry and emits
\* exactly one rpcClose carrying that token; and a Server.call made for a
\* token that is not in the registry is refused as not connected: it is
\* rejected, nothing is sent and no pending-call record is made.
C17_CloseUnregistersAndNotifies ==
  [][/\ \A c \in Conns :
          (/\ sState[c] # "CLOSED" /\ sState'[c] = "CLOSED"
           /\ wsToken[c] # Undefined /\ devices[wsToken[c]] = c)
            => /\ devices'[wsToken[c]] = 0
               /\ rpcCloseLog' = Append(rpcCloseLog, wsToken[c])
     /\ \A id \in CallIds :
          (/\ calls[id].dir = "none" /\ calls'[id].dir = "s2c"
           /\ \A t \in Tokens : devices[t] = 0)
            => /\ calls'[id].state = "rejected"
               /\ calls'[id].err.message = "Client doesn't connected"
               /\ id \notin sRequests'
               /\ s2c' = s2c]_vars

\* C17 witness: the registered peer's transport closed, rpcClose carried its
\* token, and a later Server.call for the token was refused
C17_Witness ==
  \E id \in CallIds, t \in Tokens :
    /\ rpcCloseLog = <<t>> /\ devices[t] = 0
    /\ calls[id].dir = "s2c" /\ calls[id].state = "rejected" /\ ~calls[id].open

\* C18: unregister(name) removes dispatchability immediately: once a name is
\* absent from the client's method set, no endpoint of the client that can
\* still receive a request has a handler for it, so every request for the
\* name processed from then on is answered with procedure-not-found.
C18_UnregisterImmediate ==
  \A n \in Names, c \in Conns :
    (rcMethods[n] = NoHandler /\ cState[c] = "OPEN" /\ link[c] = "up")
      => cMethods[c][n] = NoHandler

\* C19: the listeners attached to the live endpoint of a connected
\* reconnecting client are exactly the durable listener set: every listener
\* added before or after the connection and not removed by the caller is on
\* the endpoint once connect has fired for it.
C19_ListenersFollowDurableSet ==
  \A c \in Conns :
    (instance = c /\ cState[c] = "OPEN" /\ link[c] = "up" /\ connectFired[c] >= 1)
      => cListeners[c] = listeners

\* C20: when the transport of an endpoint closes, every call pending on it is
\* failed: once the close has been processed, the pending-call table of the
\* endpoint holds no record of a call issued over the closed transport, on
\* the client and on the server.
C20_CloseFailsPendingCalls ==
  \A id \in CallIds :
    /\ (calls[id].dir = "c2s" /\ calls[id].conn # 0
        /\ cState[IF calls[id].conn = 0 THEN 1 ELSE calls[id].conn] = "CLOSED")
         => (calls[id].state # "pending" /\ id \notin cRequests[calls[id].conn])
    /\ (calls[id].dir = "s2c" /\ calls[id].conn # 0
        /\ sState[IF calls[id].conn = 0 THEN 1 ELSE calls[id].conn] = "CLOSED")
         => (calls[id].state # "pending" /\ id \notin sRequests)

\* the last frame of queue q is a Response or an Error with the given id
RepliedWith(q, q2, id) ==
  /\ Len(q2) = Len(q) + 1
  /\ MessageTypeOf(q2[Len(q2)]) \in {"Response", "Error"}
  /\ q2[Len(q2)].id = id

\* C21: for every inbound Request processed on a transport that stays open,
\* the endpoint sends exactly one envelope, a Response or an Error with the
\* id of the Request: in the step that finds no handler, and in the step in
\* which the handler's run ends (value, undefined, or exception).
C21_OneReplyPerRequest ==
  [][\A c \in Conns :
       /\ (sState[c] = "OPEN" /\ link[c] = "up" /\ sState'[c] = "OPEN" /\ link'[c] = "up") =>
            /\ \A d \in sDispatch :
                 (d.conn = c /\ d \notin sDispatch') => RepliedWith(s2c[c], s2c'[c], d.id)
            /\ (/\ c2s[c] # <<>> /\ c2s'[c] = Tail(c2s[c])
                /\ MessageTypeOf(Head(c2s[c])) = "Request"
                /\ sMethods[Head(c2s[c]).method] = NoHandler)
                 => RepliedWith(s2c[c], s2c'[c], Head(c2s[c]).id)
       /\ (cState[c] = "OPEN" /\ link[c] = "up" /\ cState'[c] = "OPEN" /\ link'[c] = "up") =>
            /\ \A d \in cDispatch[c] :
                 d \notin cDispatch'[c] => RepliedWith(c2s[c], c2s'[c], d.id)
            /\ (/\ s2c[c] # <<>> /\ s2c'[c] = Tail(s2c[c])
                /\ MessageTypeOf(Head(s2c[c])) = "Request"
                /\ cMethods[c][Head(s2c[c]).method] = NoHandler)
                 => RepliedWith(c2s[c], c2s'[c], Head(s2c[c]).id)]_vars

\* the classification of a decoded JSON object by the rules in their stated
\* order, given which envelopes the first rule rejects
Precedence(m, rejected) ==
  /\ rejected => decoded.type = "Malformed"
  /\ (~rejected /\ Has(m, "method") /\ m.method = ConnectMethod) => decoded.type = "Connect"
  /\ (~rejected /\ Has(m, "method") /\ m.method # ConnectMethod) => decoded.type = "Request"
  /\ (~rejected /\ ~Has(m, "method") /\ Has(m, "result")) => decoded.type = "Response"
  /\ (~rejected /\ ~Has(m, "method") /\ ~Has(m, "result") /\ Has(m, "error"))
       => decoded.type = "Error"
  /\ (~rejected /\ ~Has(m, "method") /\ ~Has(m, "result") /\ ~Has(m, "error"))
       => decoded.type = "Malformed"

WrongVersion(m) == ~Has(m, "jsonrpc") \/ m.jsonrpc # Version

\* C22 as stated: a JSON object is Malformed when its id is missing or its
\* version is wrong; otherwise Connect when its method is connect; otherwise
\* Request when it has a method; otherwise Response when it has a result;
\* otherwise Error when it has an error; otherwise Malformed
C22_PrecedenceMissingId ==
  (decoded # NoDecode /\ ~Has(wire, "raw")) =>
     Precedence(wire, ~Has(wire, "id") \/ WrongVersion(wire))

\* C22 amended: the first rule rejects a missing or falsy id (and a wrong
\* version); the later rules apply in the stated order to every other object,
\* so an object with both method and result is a Request (or Connect), and
\* one with both result and error is a Response
C22_Precedence ==
  (decoded # NoDecode /\ ~Has(wire, "raw")) =>
     Precedence(wire, FalsyId(wire) \/ WrongVersion(wire))

C22_Witness ==
  /\ wire = [jsonrpc |-> Version, id |-> 1, method |-> "m1", result |-> "a"]
  /\ decoded.type = "Request"

\* C23: every token in the server's device registry belongs to a connection
\* whose handshake hook has returned true; a token is never registered while
\* its handshake is pending or after it was refused.
C23_RegisteredOnlyAfterAccept ==
  \A t \in Tokens :
    devices[t] # 0 => HookOutcome(devices[t]) = "true"

\* the connections whose last handshake for token t was accepted and whose
\* socket the server has not seen close
AcceptedLive(t) ==
  {c \in Conns : wsToken[c] = t /\ hsReplies[c] # <<>> /\ hsReplies[c][Len(hsReplies[c])]
                 /\ sState[c] = "OPEN"}

\* C24: the registry maps a token to the connection of the last successful
\* handshake for it; a Connect for the token that is pending or was refused
\* neither replaces nor removes the entry of an already registered live
\* connection.
C24_RefusedConnectKeepsEntry ==
  [][\A t \in Tokens : \A c \in Conns :
       (/\ devices[t] = c
        /\ c \in AcceptedLive(t)
        /\ c \in AcceptedLive(t)'
        /\ \A c2 \in Conns \ {c} : c2 \notin AcceptedLive(t)')
         => devices'[t] = c]_vars

\* ------------------------------------------- replies from another connection
\* the host writes a Response frame for request id on the live instance's
\* socket: client.instance.send(JSON.stringify({jsonrpc, id, result}))
InstanceSendReply(id) ==
  /\ instance # 0
  /\ cState[instance] = "OPEN"
  /\ c2s[instance] = <<>>
  /\ c2s' = [c2s EXCEPT ![instance] =
               ClientSend(@, instance, RPCHelpers_rpcResponse("a", id))]
  /\ UNCHANGED <<cState, sState, link, s2c, clientVars, rcVars, serverVars,
                 callVars, counters>>
  /\ UNCHANGED codecVars
  /\ UNCHANGED hsReplies
  /\ UNCHANGED listeners
  /\ UNCHANGED cListeners

\* two sockets of the same token, calls of the server, and replies written
\* by hand
IsolationNext ==
  \/ UserInit
  \/ \E c \in Conns : TransportOpen(c)
  \/ \E c \in Conns : ClientRecv(c)
  \/ \E c \in Conns : \E d \in cDispatch[c] : ClientHandlerDone(c, d)
  \/ \E c \in Conns : ServerRecv(c)
  \/ \E h \in hsPending : HandshakeDone(h)
  \/ \E t \in Tokens, m \in Names, p \in ParamsIn : ServerCall(t, m, p)
  \/ \E id \in CallIds : RequestTimer(id)
  \/ \E id \in CallIds : InstanceSendReply(id)

IsolationSpec == InitLive /\ [][IsolationNext]_vars

\* C25: a call the server issued to a token is settled only by a Response or
\* Error that arrives on the connection the request was sent on, or by its
\* timeout; a frame with the same id arriving on another connection never
\* settles it.
C25_SettledOnOwnConnection ==
  [][\A id \in CallIds :
       (/\ calls[id].dir = "s2c"
        /\ calls[id].state = "pending"
        /\ calls'[id].state # "pending"
        /\ NotTimedOut(calls'[id]))
         => /\ c2s[calls[id].conn] # <<>>
            /\ c2s'[calls[id].conn] = Tail(c2s[calls[id].conn])
            /\ MessageTypeOf(Head(c2s[calls[id].conn])) \in {"Response", "Error"}
            /\ Head(c2s[calls[id].conn]).id = id]_vars

\* the peer endpoints of the reconnecting client whose socket is connecting
\* or open
LiveEndpoints == {c \in Conns : cState[c] \in {"CONNECTING", "OPEN"}}

\* C26: over any interleaving of init(), disconnect(), transport closes and
\* reconnection timers the reconnecting client owns at most one live peer
\* endpoint, at most one connection attempt (scheduled or connecting) is
\* active at a time, and every automatic attempt was started after the close
\* of the endpoint it replaces was observed.
C26_OneEndpointOneAttempt ==
  /\ Cardinality(LiveEndpoints) <= 1
  /\ Cardinality({c \in Conns : cState[c] = "CONNECTING"}) + Cardinality(reconnTimer) <= 1
  /\ \A c \in Conns :
       (initState[c] # "none" /\ initParent[c] # 0) => cState[initParent[c]] = "CLOSED"

\* C27: once the server has refused the handshake the client is Rejected: in
\* every step taken from then on no reconnection is scheduled or waiting to
\* fire, and a new connection attempt is made only by a call of init().
C27_RejectedNeverReconnects ==
  [][serverRejected =>
       /\ reconnTimer = {}
       /\ reconnTimer' = {}
       /\ nConns' > nConns => initParent'[nConns'] = 0]_vars

\* the attempts the reconnection timer of instance c has started
Reattempts(c) == {d \in Conns : initState[d] # "none" /\ initParent[d] = c}

C29_RegistryEqualsDurableSet ==
  /\ instance # 0 =>
       \A n \in Names : cMethods[instance][n] \in {NoHandler, rcMethods[n]}
  /\ RCConnected => cMethods[instance] = rcMethods

\* C29 witness: a reconnected instance is Connected and carries the method
\* of the durable set
C29_Witness ==
  /\ RCConnected /\ initParent[instance] # 0
  /\ \E n \in Names : rcMethods[n] # NoHandler /\ cMethods[instance][n] = rcMethods[n]

\* ------------------------------------------------- handlers in flight
\* a connected client and a server with their methods registered, and the
\* calls the two hosts make
ConcurrentNext ==
  \/ (instance = 0 /\ UserInit)
  \/ \E c \in Conns : TransportOpen(c)
  \/ \E c \in Conns : ClientRecv(c)
  \/ \E c \in Conns : \E d \in cDispatch[c] : ClientHandlerDone(c, d)
  \/ \E c \in Conns : ServerRecv(c)
  \/ \E h \in hsPending : HandshakeDone(h)
  \/ \E d \in sDispatch : ServerHandlerDone(d)
  \/ \E m \in Names, p \in ParamsIn : RCCall(m, p)
  \/ \E t \in Tokens, m \in Names, p \in ParamsIn : ServerCall(t, m, p)
  \/ \E id \in CallIds : RequestTimer(id)

ConcurrentSpec == InitLive /\ [][ConcurrentNext]_vars

\* the outcome of the handler run for call r, as its caller is to see it
OwnOutcome(r) ==
  IF r.state = "resolved"
    THEN r.ran = "ret" /\ r.val = Coalesce(r.ranv)
    ELSE /\ r.ran \in {"throw", "notfound"}
         /\ r.err.message = (IF r.ran = "notfound" THEN ProcedureNotFoundText ELSE r.ranv)

\* C30: a suspended handler does not stop its endpoint from reading the next
\* frame, so several handler runs are in flight and answer in any order; and
\* every call that a reply has settled carries the outcome of the handler
\* run for its own id, never that of another call.
C30_ConcurrentHandlers ==
  /\ \A c \in Conns :
       /\ (sDispatch # {} /\ sState[c] = "OPEN" /\ c2s[c] # <<>>) => ENABLED ServerRecv(c)
       /\ (cDispatch[c] # {} /\ cState[c] = "OPEN" /\ s2c[c] # <<>>) => ENABLED ClientRecv(c)
  /\ \A id \in CallIds :
       (calls[id].state \in {"resolved", "rejected"} /\ calls[id].open
        /\ NotTimedOut(calls[id])) => OwnOutcome(calls[id])

\* C30 witness: two handler runs of the server were in flight together; the
\* later call is resolved with the value its own run returned while the
\* earlier run, which will throw, is still suspended
C30_Witness ==
  /\ \E d \in sDispatch : d.id = 1 /\ d.b.k = "throw"
  /\ calls[1].state = "pending" /\ calls[1].ran = "throw"
  /\ calls[2].dir = "c2s" /\ calls[2].ran = "ret"
  /\ calls[2].state = "resolved" /\ calls[2].val = calls[2].ranv

\* the listener of the queue q reads a Response or Error whose id is not in
\* the pending-call table
UnknownReply(q, q2, pending) ==
  /\ q # <<>> /\ q2 = Tail(q)
  /\ MessageTypeOf(Head(q)) \in {"Response", "Error"}
  /\ Head(q).id \notin pending

\* the promises of the callers are what they were
CallsUntouched ==
  \A id \in CallIds :
    /\ calls'[id].state = calls[id].state
    /\ calls'[id].settles = calls[id].settles

\* C31: a Response or Error whose id matches no pending call is reported as
\* a RequestError on the endpoint's error channel and never escapes the
\* listener; the pending-call table and the pending calls stay as they were
\* and the connection stays open.
C31_UnknownIdReported ==
  [][\A c \in Conns :
       /\ (cState[c] = "OPEN" /\ link'[c] = link[c]
           /\ UnknownReply(s2c[c], s2c'[c], cRequests[c]))
            => /\ RequestError("Wrong request id") \in errorEvents'
               /\ cRequests' = cRequests /\ CallsUntouched
               /\ cState'[c] = "OPEN"
       /\ (sState[c] = "OPEN" /\ link'[c] = link[c]
           /\ UnknownReply(c2s[c], c2s'[c], sRequests))
            => /\ unhandled' = unhandled
               /\ sRequests' = sRequests /\ CallsUntouched
               /\ sState'[c] = "OPEN"]_vars

\* the listener of the queue q reads a Response or Error for a pending call
KnownReply(q, q2, pending) ==
  /\ q # <<>> /\ q2 = Tail(q)
  /\ MessageTypeOf(Head(q)) \in {"Response", "Error"}
  /\ Head(q).id \in pending
  /\ calls[Head(q).id].state = "pending"

\* the call the frame msg answers is settled as the frame says
SettledAs(msg) ==
  IF MessageTypeOf(msg) = "Response"
    THEN /\ calls'[msg.id].state = "resolved"
         /\ calls'[msg.id].val = msg.result
    ELSE /\ calls'[msg.id].state = "rejected"
         /\ calls'[msg.id].err = (IF msg.error = ProcedureNotFoundText
                                    THEN ProcedureNotFoundError
                                    ELSE RequestError(msg.error))

\* C32: an inbound Error settles the matching pending call with a failure
\* and removes its record: ProcedureNotFoundError exactly when the text is
\* the procedure-not-found message, otherwise a RequestError with the text
\* received; an inbound Response resolves it with the result carried, null
\* included.
C32_ReplySettlesCall ==
  [][\A c \in Conns :
       /\ (cState[c] = "OPEN" /\ link'[c] = link[c]
           /\ KnownReply(s2c[c], s2c'[c], cRequests[c]))
            => /\ SettledAs(Head(s2c[c]))
               /\ Head(s2c[c]).id \notin cRequests'[c]
       /\ (sState[c] = "OPEN" /\ link'[c] = link[c]
           /\ KnownReply(c2s[c], c2s'[c], sRequests))
            => /\ SettledAs(Head(c2s[c]))
               /\ Head(c2s[c]).id \notin sRequests']_vars

\* -------------------------------------------- Connect frames written by hand
\* the params of a Connect frame that names no token (a client constructed
\* with an empty or undefined token sends the same)
NoTokenParams == <<>>

\* the host writes a Connect frame with params p on the live instance's
\* socket: client.instance.send(JSON.stringify({jsonrpc, id, method, params}))
InstanceSendConnect(p) ==
  /\ instance # 0
  /\ cState[instance] = "OPEN"
  /\ nOps < MaxOps
  /\ nOps' = nOps + 1
  /\ c2s' = [c2s EXCEPT ![instance] =
               ClientSend(@, instance, rpcConnect(p, 0 - MaxConns - instance))]
  /\ UNCHANGED <<cState, sState, link, s2c, clientVars, rcVars, serverVars,
                 callVars, nConns, nCalls>>
  /\ UNCHANGED codecVars
  /\ UNCHANGED hsReplies
  /\ UNCHANGED listeners
  /\ UNCHANGED cListeners

\* a server with any hook, a client, Connect frames with and without a
\* token, and calls of the server to the tokens
HandshakeNext ==
  \/ UserInit
  \/ \E c \in Conns : TransportOpen(c)
  \/ \E c \in Conns : Kill(c)
  \/ \E c \in Conns : ClientOnClose(c)
  \/ \E c \in Conns : ServerOnClose(c)
  \/ \E c \in Conns : ReconnectTimer(c)
  \/ \E c \in Conns : ClientRecv(c)
  \/ \E c \in Conns : ServerRecv(c)
  \/ \E h \in hsPending : HandshakeDone(h)
  \/ InstanceSendConnect(NoTokenParams)
  \/ \E t \in Tokens : InstanceSendConnect([id |-> t])
  \/ \E t \in Tokens, m \in Names, p \in ParamsIn : ServerCall(t, m, p)
  \/ \E id \in CallIds : RequestTimer(id)

HandshakeSpec == Init /\ [][HandshakeNext]_vars

\* the server's listener reads a Connect frame that names no token
TokenlessConnect(c) ==
  /\ sState[c] = "OPEN" /\ link'[c] = link[c]
  /\ c2s[c] # <<>> /\ c2s'[c] = Tail(c2s[c])
  /\ MessageTypeOf(Head(c2s[c])) = "Connect"
  /\ ~Has(Head(c2s[c]).params, "id")

\* C33: a Connect envelope with no token is a protocol error that is reported
\* and does not escape the server's listener as an exception; the handshake
\* hook is not invoked for it and the device registry is left as it was.
C33_TokenlessConnectReported ==
  [][\A c \in Conns :
       TokenlessConnect(c) =>
         /\ unhandled' = unhandled
         /\ hsPending' = hsPending
         /\ devices' = devices /\ wsToken' = wsToken]_vars

\* ------------------------------------------------ calls under a fair loop
\* a connected client and a server with their methods registered; one of the
\* hosts calls the other, the network kills connections, and the event loop
\* runs whatever is pending
CallLiveNext ==
  \/ (instance = 0 /\ UserInit)
  \/ \E c \in Conns : Kill(c)
  \/ (nCalls = 0 /\ \E m \in Names, p \in ParamsIn : RCCall(m, p))
  \/ (nCalls = 0 /\ \E t \in Tokens, m \in Names, p \in ParamsIn : ServerCall(t, m, p))
  \/ Internal

CallLiveSpec == InitLive /\ [][CallLiveNext]_vars /\ Fairness

\* C34: every call for which a pending-call record was made is eventually
\* settled and its record eventually removed, whatever happens to the
\* transport and whether or not a reply is ever sent.
C34_EveryCallSettles ==
  \A id \in CallIds :
    (id \in AllRequests) ~>
       (id \notin AllRequests /\ calls[id].state \in {"resolved", "rejected"})

\* C34 witness: the transport of a call was killed before any reply reached
\* the caller; the call is rejected by its deadline and has no record
C34_Witness ==
  \E id \in CallIds :
    /\ calls[id].open /\ ~calls[id].delivered
    /\ calls[id].conn # 0
    /\ link[IF calls[id].conn = 0 THEN 1 ELSE calls[id].conn] = "down"
    /\ calls[id].state = "rejected" /\ calls[id].err.message = TimeoutText
    /\ id \notin AllRequests

\* the init() calls whose close listener is waiting for the attempt of
\* instance c: the attempt that scheduled c, the one that scheduled that, ...
RECURSIVE Awaiting(_)
Awaiting(c) ==
  IF initParent[c] = 0 THEN {} ELSE {initParent[c]} \cup Awaiting(initParent[c])

\* C35: every promise returned by init() is settled once a handshake outcome
\* is obtained, also when the first attempt failed to reach the server and
\* the handshake was accepted on a later automatic attempt: when an instance
\* has fired connect, its own init() promise and those of the attempts
\* waiting for it are no longer pending; and when a refused instance has
\* closed, they are rejected.
C35_InitSettlesOnOutcome ==
  \A c \in Conns :
    /\ connectFired[c] >= 1 =>
         \A a \in {c} \cup Awaiting(c) : initState[a] # "pending"
    /\ (connectErrorFired[c] >= 1 /\ connectFired[c] = 0 /\ cState[c] = "CLOSED") =>
         \A a \in {c} \cup Awaiting(c) : initState[a] # "pending"

\* C36: the server runs a registered handler only for a connection whose
\* handshake has been accepted: no handler is started on behalf of a
\* connection that sent no Connect, whose handshake is pending, or whose
\* handshake was refused or failed.
C36_DispatchOnlyAfterAccept ==
  [][\A d \in sDispatch' \ sDispatch : HookOutcome(d.conn) = "true"]_vars

\* C37: when two connections have presented the same token, the close of the
\* older one does not remove the registry entry of the newer one: the step
\* that processes the close of a connection leaves the entry of every token
\* that maps to another connection as it was.
C37_OldCloseKeepsNewEntry ==
  [][\A c \in Conns :
       (sState[c] # "CLOSED" /\ sState'[c] = "CLOSED") =>
         \A t \in Tokens : (devices[t] # 0 /\ devices[t] # c) => devices'[t] = devices[t]]_vars

\* C38: after a connection has closed, no token of the device registry maps
\* to it, also when the connection presented several tokens in its lifetime.
C38_ClosedConnectionUnregistered ==
  \A c \in Conns :
    sState[c] = "CLOSED" => \A t \in Tokens : devices[t] # c

\* C39: rpcClose is emitted only with a token whose handshake had been
\* accepted: the close of a connection that sent no Connect, or whose
\* handshake was pending, refused or failed, emits nothing, and no rpcClose
\* carries an undefined token.
C39_CloseNotifiesAcceptedOnly ==
  [][/\ \A c \in Conns :
          (sState[c] # "CLOSED" /\ sState'[c] = "CLOSED" /\ HookOutcome(c) # "true")
            => rpcCloseLog' = rpcCloseLog
     /\ \A i \in 1..Len(rpcCloseLog') : rpcCloseLog'[i] # Undefined]_vars

\* C40: a Request that reaches the live endpoint of the reconnecting client
\* for a method of the durable method set is dispatched to its handler and
\* is never answered with procedure-not-found, also when it arrives on a new
\* endpoint before the server's Connect reply has been processed.
C40_DurableMethodDispatched ==
  [][\A c \in Conns :
       (/\ instance = c /\ cState[c] = "OPEN" /\ link'[c] = link[c]
        /\ s2c[c] # <<>> /\ s2c'[c] = Tail(s2c[c])
        /\ MessageTypeOf(Head(s2c[c])) = "Request"
        /\ rcMethods[Head(s2c[c]).method] # NoHandler)
         => /\ \E d \in cDispatch'[c] : d.id = Head(s2c[c]).id
            /\ c2s'[c] = c2s[c]]_vars

====
